---- MODULE Spec2Model ----
(***************************************************************************)
(* Model of app/static/js/main.js: the page controller that binds the      *)
(* index button to POST /api/index-documents and the question form to      *)
(* POST /api/ask, and renders the JSON responses into the DOM.             *)
(*                                                                         *)
(* The browser runs the code on one thread.  A click, a submit and the     *)
(* arrival of a response are tasks; the then / catch / finally callbacks   *)
(* of a promise chain are microtasks, which all run before the next task   *)
(* starts.  alert() blocks the thread until the user dismisses the box.    *)
(***************************************************************************)
EXTENDS Integers, Sequences, FiniteSets, TLC

\* ---------------------------------------------------------------- bounds
MaxClicks == 2      \* click events delivered to the index button
MaxSubmits == 3     \* submit events delivered to the question form

\* ------------------------------------------------- inputs from outside
\* Characters the user can type; a text is a sequence of characters.
Space == " "
Inputs == { <<>>, <<Space, Space>>, <<Space, "a", Space>> }

\* Bodies of /api/index-documents responses (spec 6: success, message).
IndexData == { [success |-> TRUE,  message |-> "3 Dokumente indexiert"],
               [success |-> FALSE, message |-> "Keine Dokumente"] }

\* Descriptions of the errors fetch() or response.json() reject with.
Errors == { "Failed to fetch" }

\* Sources a /api/ask response can cite; score is in thousandths
\* (873 stands for 0.873).
Geo == [filename |-> "geo.txt", score |-> 873]
Hist == [filename |-> "hist.txt", score |-> 50]
SourceSeqs == { <<>>, <<Geo>>, <<Hist, Geo>> }

\* Bodies of /api/ask responses.  hasSources = FALSE is a body without a
\* sources field.
Answer(s) == IF Len(s) = 2 THEN "Rom" ELSE "Paris"
AskSuccess ==
    { [success |-> TRUE, answer |-> Answer(s), message |-> "",
       hasSources |-> TRUE, sources |-> s] : s \in SourceSeqs }
    \cup
    { [success |-> TRUE, answer |-> "Paris", message |-> "",
       hasSources |-> FALSE, sources |-> <<>>] }
AskFailure ==
    { [success |-> FALSE, answer |-> "", message |-> "no index",
       hasSources |-> FALSE, sources |-> <<>>] }
AskData == AskSuccess \cup AskFailure

NoData == [success |-> FALSE, answer |-> "", message |-> "",
           hasSources |-> FALSE, sources |-> <<>>]
NoIndexData == [success |-> FALSE, message |-> ""]
NoError == ""
NoAlert == ""

\* --------------------------------------------------------------- state
VARIABLES
    indexButtonDisabled, \* indexButton.disabled
    indexStatus,         \* content of #indexStatus
    indexReqs,           \* promise chains of the index handler still alive
    indexSent,           \* fetch('/api/index-documents') calls so far
    clickEvents,         \* click events handled so far
    questionInput,       \* questionInput.value
    loadingHidden,       \* loadingIndicator has class d-none
    answerHidden,        \* answerSection has class d-none
    answerContent,       \* content of #answerContent
    sourcesList,         \* the <li> children of #sourcesList, in order
    askReqs,             \* promise chains of the submit handler still alive
    askSent,             \* fetch('/api/ask') calls so far
    submitEvents,        \* submit events handled so far
    alert,               \* text of the open alert box, NoAlert when none
    console              \* error descriptions written by console.error

indexVars == <<indexButtonDisabled, indexStatus, indexReqs, indexSent,
               clickEvents>>
askVars == <<questionInput, loadingHidden, answerHidden, answerContent,
             sourcesList, askReqs, askSent, submitEvents>>
vars == <<indexButtonDisabled, indexStatus, indexReqs, indexSent,
          clickEvents, questionInput, loadingHidden, answerHidden,
          answerContent, sourcesList, askReqs, askSent, submitEvents,
          alert, console>>

\* ------------------------------------------------------- pure helpers
\* String.prototype.trim on a sequence of characters.
RECURSIVE TrimStart(_)
TrimStart(s) ==
    IF s # <<>> /\ Head(s) = Space THEN TrimStart(Tail(s)) ELSE s

RECURSIVE TrimEnd(_)
TrimEnd(s) ==
    IF s # <<>> /\ s[Len(s)] = Space
    THEN TrimEnd(SubSeq(s, 1, Len(s) - 1))
    ELSE s

Trim(s) == TrimEnd(TrimStart(s))

\* (score * 100).toFixed(1) for a score given in thousandths.
ToFixed1(score) == ToString(score \div 10) \o "." \o ToString(score % 10)

\* The text of one <li> of the sources list.
SourceText(source) ==
    source.filename \o " (Relevanz: " \o ToFixed1(source.score) \o "%)"

Placeholder == "Keine spezifischen Quellen gefunden."

\* A list item: className and textContent.
Li(text) == [cls |-> "list-group-item", sink |-> "textContent",
             text |-> text]

\* The value of an innerHTML assignment of a <div class="alert ...">.
AlertDiv(cls, text) == [sink |-> "innerHTML", cls |-> cls, text |-> text]

\* No callback is queued and no alert box is open: the thread is free to
\* start the next task.
Idle ==
    /\ alert = NoAlert
    /\ \A r \in indexReqs : r.stage = "inflight"
    /\ \A r \in askReqs : r.stage = "inflight"

\* ---------------------------------------------------------------- Init
Init ==
    /\ indexButtonDisabled = FALSE
    /\ indexStatus = [sink |-> "markup", cls |-> "", text |-> ""]
    /\ indexReqs = {}
    /\ indexSent = 0
    /\ clickEvents = 0
    /\ questionInput = <<>>
    /\ loadingHidden = TRUE
    /\ answerHidden = TRUE
    /\ answerContent = [sink |-> "markup", text |-> ""]
    /\ sourcesList = <<>>
    /\ askReqs = {}
    /\ askSent = 0
    /\ submitEvents = 0
    /\ alert = NoAlert
    /\ console = {}

\* ---------------------------------------------------------- index flow
\* A click handler that leaves the button enabled.
ClickDisabledNot == FALSE

\* Value written to indexButton.disabled by the click handler.
ClickDisabled == TRUE

\* The click handler up to and including the fetch call.  The browser
\* delivers no click to a disabled button.
Click ==
    /\ Idle
    /\ ~indexButtonDisabled
    /\ clickEvents < MaxClicks
    /\ clickEvents' = clickEvents + 1
    /\ indexButtonDisabled' = ClickDisabled
    /\ indexStatus' = AlertDiv("alert-info", "Indexierung gestartet...")
    /\ indexSent' = indexSent + 1
    /\ indexReqs' = indexReqs \cup
          { [id |-> indexSent + 1, stage |-> "inflight",
             data |-> NoIndexData, error |-> NoError] }
    /\ UNCHANGED <<askVars, alert, console>>

\* fetch and response.json() fulfil with a parsed body.
IndexResolve(r, d) ==
    /\ Idle
    /\ r.stage = "inflight"
    /\ indexReqs' = (indexReqs \ {r}) \cup
          { [r EXCEPT !.stage = "resolved", !.data = d] }
    /\ UNCHANGED <<indexButtonDisabled, indexStatus, indexSent, clickEvents,
                   askVars, alert, console>>

\* fetch or response.json() rejects.
IndexReject(r, e) ==
    /\ Idle
    /\ r.stage = "inflight"
    /\ indexReqs' = (indexReqs \ {r}) \cup
          { [r EXCEPT !.stage = "rejected", !.error = e] }
    /\ UNCHANGED <<indexButtonDisabled, indexStatus, indexSent, clickEvents,
                   askVars, alert, console>>

\* A then callback with the two branches swapped.
IndexThenStatusSwapped(d) ==
    IF d.success
    THEN AlertDiv("alert-danger", d.message)
    ELSE AlertDiv("alert-success", d.message)

\* What .then(data => ...) writes to indexStatus.innerHTML.
IndexThenStatus(d) ==
    IF d.success
    THEN AlertDiv("alert-success", d.message)
    ELSE AlertDiv("alert-danger", d.message)

\* A then callback that also enables the button, ahead of .finally.
IndexThenEnables(r) ==
    /\ alert = NoAlert
    /\ r.stage = "resolved"
    /\ indexStatus' = IndexThenStatus(r.data)
    /\ indexButtonDisabled' = FALSE
    /\ indexReqs' = (indexReqs \ {r}) \cup { [r EXCEPT !.stage = "finally"] }
    /\ UNCHANGED <<indexSent, clickEvents, askVars, alert, console>>

\* .then(data => ...) of the index chain.
IndexThen(r) ==
    /\ alert = NoAlert
    /\ r.stage = "resolved"
    /\ indexStatus' = IndexThenStatus(r.data)
    /\ indexReqs' = (indexReqs \ {r}) \cup { [r EXCEPT !.stage = "finally"] }
    /\ UNCHANGED <<indexButtonDisabled, indexSent, clickEvents, askVars,
                   alert, console>>

\* A catch callback that drops the description of the error.
IndexCatchStatusGeneric(e) == AlertDiv("alert-danger", "Fehler")

\* What .catch(error => ...) writes to indexStatus.innerHTML.
IndexCatchStatus(e) == AlertDiv("alert-danger", "Fehler: " \o e)

\* A catch callback that sends the request again.
IndexCatchRetry(r) ==
    /\ alert = NoAlert
    /\ r.stage = "rejected"
    /\ indexStatus' = AlertDiv("alert-danger", "Fehler: " \o r.error)
    /\ console' = console \cup {r.error}
    /\ indexSent' = indexSent + 1
    /\ indexReqs' = (indexReqs \ {r}) \cup
          { [r EXCEPT !.stage = "finally"],
            [id |-> indexSent + 1, stage |-> "inflight",
             data |-> NoIndexData, error |-> NoError] }
    /\ UNCHANGED <<indexButtonDisabled, clickEvents, askVars, alert>>

\* .catch(error => ...) of the index chain.
IndexCatch(r) ==
    /\ alert = NoAlert
    /\ r.stage = "rejected"
    /\ indexStatus' = IndexCatchStatus(r.error)
    /\ console' = console \cup {r.error}
    /\ indexReqs' = (indexReqs \ {r}) \cup { [r EXCEPT !.stage = "finally"] }
    /\ UNCHANGED <<indexButtonDisabled, indexSent, clickEvents, askVars,
                   alert>>

\* A chain without the .finally assignment: the button keeps its state.
FinallyDisabledKept == indexButtonDisabled

\* Value written to indexButton.disabled by .finally.
FinallyDisabled == FALSE

IndexFinally(r) ==
    /\ alert = NoAlert
    /\ r.stage = "finally"
    /\ indexButtonDisabled' = FinallyDisabled
    /\ indexReqs' = indexReqs \ {r}
    /\ UNCHANGED <<indexStatus, indexSent, clickEvents, askVars, alert,
                   console>>

\* ------------------------------------------------------- question flow
\* The user edits the question field.
TypeQuestion(v) ==
    /\ Idle
    /\ v # questionInput
    /\ questionInput' = v
    /\ UNCHANGED <<indexVars, loadingHidden, answerHidden, answerContent,
                   sourcesList, askReqs, askSent, submitEvents, alert,
                   console>>

\* A submit handler that does not trim the input.
QuestionUntrimmed(value) == value

\* const question = questionInput.value.trim()
Question(value) == Trim(value)

\* !question for a string: true exactly for the empty string.
Not(question) == question = <<>>

\* The submit handler up to and including the fetch call, or up to the
\* alert when the question is empty.
Submit ==
    /\ Idle
    /\ submitEvents < MaxSubmits
    /\ submitEvents' = submitEvents + 1
    /\ LET question == Question(questionInput) IN
         IF Not(question)
         THEN /\ alert' = "Bitte geben Sie eine Frage ein."
              /\ UNCHANGED <<loadingHidden, answerHidden, askSent, askReqs>>
         ELSE /\ loadingHidden' = FALSE
              /\ answerHidden' = TRUE
              /\ askSent' = askSent + 1
              /\ askReqs' = askReqs \cup
                    { [id |-> askSent + 1, body |-> question,
                       stage |-> "inflight", data |-> NoData,
                       error |-> NoError] }
              /\ UNCHANGED alert
    /\ UNCHANGED <<indexVars, questionInput, answerContent, sourcesList,
                   console>>

\* The user closes the warning of the submit handler, which then returns.
DismissWarning ==
    /\ alert # NoAlert
    /\ \A r \in askReqs : r.stage \notin {"thenAlert", "catchAlert"}
    /\ alert' = NoAlert
    /\ UNCHANGED <<indexVars, askVars, console>>

\* fetch and response.json() fulfil with a parsed body.
AskResolve(r, d) ==
    /\ Idle
    /\ r.stage = "inflight"
    /\ askReqs' = (askReqs \ {r}) \cup
          { [r EXCEPT !.stage = "resolved", !.data = d] }
    /\ UNCHANGED <<indexVars, questionInput, loadingHidden, answerHidden,
                   answerContent, sourcesList, askSent, submitEvents, alert,
                   console>>

\* fetch or response.json() rejects.
AskReject(r, e) ==
    /\ Idle
    /\ r.stage = "inflight"
    /\ askReqs' = (askReqs \ {r}) \cup
          { [r EXCEPT !.stage = "rejected", !.error = e] }
    /\ UNCHANGED <<indexVars, questionInput, loadingHidden, answerHidden,
                   answerContent, sourcesList, askSent, submitEvents, alert,
                   console>>

\* A success branch that does not empty the list before appending.
RenderSourcesAppend(d, before) ==
    IF d.hasSources /\ Len(d.sources) > 0
    THEN before \o [i \in 1..Len(d.sources) |->
                       Li(SourceText(d.sources[i]))]
    ELSE before \o << Li(Placeholder) >>

\* A success branch that tests only the presence of the sources field: an
\* empty array is truthy, so it renders no entry at all.
RenderSourcesTruthy(d, before) ==
    IF d.hasSources
    THEN [i \in 1..Len(d.sources) |-> Li(SourceText(d.sources[i]))]
    ELSE << Li(Placeholder) >>

\* The children of #sourcesList after the success branch, given the
\* children before it: the list is emptied, then one <li> per source or
\* the placeholder is appended.
RenderSources(d, before) ==
    LET emptied == SubSeq(before, 1, 0) IN
      IF d.hasSources /\ Len(d.sources) > 0
      THEN emptied \o [i \in 1..Len(d.sources) |->
                          Li(SourceText(d.sources[i]))]
      ELSE emptied \o << Li(Placeholder) >>

\* A success branch that assigns the answer to innerHTML.
RenderAnswerHtml(d) == [sink |-> "innerHTML", text |-> d.answer]

\* What the success branch writes to answerContent.textContent.
RenderAnswer(d) == [sink |-> "textContent", text |-> d.answer]

\* The text of the alert of the failure branch.
AskThenAlert(d) == "Fehler: " \o d.message

\* A then callback that reveals the answer section after the if, in both
\* branches.
AskThenRevealsAlways(r) ==
    /\ alert = NoAlert
    /\ r.stage = "resolved"
    /\ answerHidden' = FALSE
    /\ IF r.data.success
       THEN /\ answerContent' =
                 [sink |-> "textContent", text |-> r.data.answer]
            /\ sourcesList' =
                 IF r.data.hasSources /\ Len(r.data.sources) > 0
                 THEN [i \in 1..Len(r.data.sources) |->
                         Li(SourceText(r.data.sources[i]))]
                 ELSE << Li(Placeholder) >>
            /\ askReqs' = (askReqs \ {r}) \cup
                  { [r EXCEPT !.stage = "finally"] }
            /\ UNCHANGED alert
       ELSE /\ alert' = "Fehler: " \o r.data.message
            /\ askReqs' = (askReqs \ {r}) \cup
                  { [r EXCEPT !.stage = "thenAlert"] }
            /\ UNCHANGED <<answerContent, sourcesList>>
    /\ UNCHANGED <<indexVars, questionInput, loadingHidden, askSent,
                   submitEvents, console>>

\* A then callback with a stale-response guard: only the response to the
\* most recent request is rendered.
AskThenGuarded(r) ==
    /\ alert = NoAlert
    /\ r.stage = "resolved"
    /\ IF r.data.success
       THEN /\ IF r.id = askSent
               THEN /\ answerContent' =
                         [sink |-> "textContent", text |-> r.data.answer]
                    /\ sourcesList' =
                         IF r.data.hasSources /\ Len(r.data.sources) > 0
                         THEN [i \in 1..Len(r.data.sources) |->
                                 Li(SourceText(r.data.sources[i]))]
                         ELSE << Li(Placeholder) >>
                    /\ answerHidden' = FALSE
               ELSE UNCHANGED <<answerContent, sourcesList, answerHidden>>
            /\ askReqs' = (askReqs \ {r}) \cup
                  { [r EXCEPT !.stage = "finally"] }
            /\ UNCHANGED alert
       ELSE /\ alert' = "Fehler: " \o r.data.message
            /\ askReqs' = (askReqs \ {r}) \cup
                  { [r EXCEPT !.stage = "thenAlert"] }
            /\ UNCHANGED <<answerContent, sourcesList, answerHidden>>
    /\ UNCHANGED <<indexVars, questionInput, loadingHidden, askSent,
                   submitEvents, console>>

\* .then(data => ...): renders the answer, or opens the alert and blocks.
AskThen(r) ==
    /\ alert = NoAlert
    /\ r.stage = "resolved"
    /\ IF r.data.success
       THEN /\ answerContent' = RenderAnswer(r.data)
            /\ sourcesList' = RenderSources(r.data, sourcesList)
            /\ answerHidden' = FALSE
            /\ askReqs' = (askReqs \ {r}) \cup
                  { [r EXCEPT !.stage = "finally"] }
            /\ UNCHANGED alert
       ELSE /\ alert' = AskThenAlert(r.data)
            /\ askReqs' = (askReqs \ {r}) \cup
                  { [r EXCEPT !.stage = "thenAlert"] }
            /\ UNCHANGED <<answerContent, sourcesList, answerHidden>>
    /\ UNCHANGED <<indexVars, questionInput, loadingHidden, askSent,
                   submitEvents, console>>

\* The user closes the alert of the failure branch; the callback returns.
AskThenReturn(r) ==
    /\ r.stage = "thenAlert"
    /\ alert' = NoAlert
    /\ askReqs' = (askReqs \ {r}) \cup { [r EXCEPT !.stage = "finally"] }
    /\ UNCHANGED <<indexVars, questionInput, loadingHidden, answerHidden,
                   answerContent, sourcesList, askSent, submitEvents,
                   console>>

\* The text of the alert of .catch.
AskCatchAlert(e) == "Fehler bei der Anfrage: " \o e

\* A catch callback that also empties the sources list.
AskCatchClears(r) ==
    /\ alert = NoAlert
    /\ r.stage = "rejected"
    /\ alert' = "Fehler bei der Anfrage: " \o r.error
    /\ sourcesList' = <<>>
    /\ askReqs' = (askReqs \ {r}) \cup { [r EXCEPT !.stage = "catchAlert"] }
    /\ UNCHANGED <<indexVars, questionInput, loadingHidden, answerHidden,
                   answerContent, askSent, submitEvents, console>>

\* .catch(error => ...) up to the alert, which blocks.
AskCatch(r) ==
    /\ alert = NoAlert
    /\ r.stage = "rejected"
    /\ alert' = AskCatchAlert(r.error)
    /\ askReqs' = (askReqs \ {r}) \cup { [r EXCEPT !.stage = "catchAlert"] }
    /\ UNCHANGED <<indexVars, questionInput, loadingHidden, answerHidden,
                   answerContent, sourcesList, askSent, submitEvents,
                   console>>

\* The user closes the alert of .catch; the callback logs and returns.
AskCatchReturn(r) ==
    /\ r.stage = "catchAlert"
    /\ alert' = NoAlert
    /\ console' = console \cup {r.error}
    /\ askReqs' = (askReqs \ {r}) \cup { [r EXCEPT !.stage = "finally"] }
    /\ UNCHANGED <<indexVars, questionInput, loadingHidden, answerHidden,
                   answerContent, sourcesList, askSent, submitEvents>>

\* A chain without the .finally call: the indicator keeps its state.
FinallyHiddenKept == loadingHidden

\* Whether .finally leaves loadingIndicator with class d-none.
FinallyHidden == TRUE

\* A finally callback copied from the index chain: it also enables the
\* index button.
AskFinallyEnablesButton(r) ==
    /\ alert = NoAlert
    /\ r.stage = "finally"
    /\ loadingHidden' = TRUE
    /\ indexButtonDisabled' = FALSE
    /\ askReqs' = askReqs \ {r}
    /\ UNCHANGED <<indexStatus, indexReqs, indexSent, clickEvents,
                   questionInput, answerHidden, answerContent, sourcesList,
                   askSent, submitEvents, alert, console>>

\* .finally(() => ...) of the question chain.
AskFinally(r) ==
    /\ alert = NoAlert
    /\ r.stage = "finally"
    /\ loadingHidden' = FinallyHidden
    /\ askReqs' = askReqs \ {r}
    /\ UNCHANGED <<indexVars, questionInput, answerHidden, answerContent,
                   sourcesList, askSent, submitEvents, alert, console>>

\* -------------------------------------------------------- specification
Next ==
    \/ Click
    \/ \E r \in indexReqs, d \in IndexData : IndexResolve(r, d)
    \/ \E r \in indexReqs, e \in Errors : IndexReject(r, e)
    \/ \E r \in indexReqs : IndexThen(r)
    \/ \E r \in indexReqs : IndexCatch(r)
    \/ \E r \in indexReqs : IndexFinally(r)
    \/ \E v \in Inputs : TypeQuestion(v)
    \/ Submit
    \/ DismissWarning
    \/ \E r \in askReqs, d \in AskData : AskResolve(r, d)
    \/ \E r \in askReqs, e \in Errors : AskReject(r, e)
    \/ \E r \in askReqs : AskThen(r)
    \/ \E r \in askReqs : AskThenReturn(r)
    \/ \E r \in askReqs : AskCatch(r)
    \/ \E r \in askReqs : AskCatchReturn(r)
    \/ \E r \in askReqs : AskFinally(r)

Spec == Init /\ [][Next]_vars

\* The browser runs every queued callback: a promise chain whose request
\* has settled runs to its .finally unless an alert box blocks the thread.
Callbacks ==
    \/ \E r \in indexReqs : IndexThen(r) \/ IndexCatch(r) \/ IndexFinally(r)
    \/ \E r \in askReqs : AskThen(r) \/ AskCatch(r) \/ AskFinally(r)

FairSpec == Spec /\ WF_vars(Callbacks)

TypeOK ==
    /\ indexButtonDisabled \in BOOLEAN
    /\ loadingHidden \in BOOLEAN
    /\ answerHidden \in BOOLEAN
    /\ indexSent \in 0..MaxClicks
    /\ clickEvents \in 0..MaxClicks
    /\ askSent \in 0..MaxSubmits
    /\ submitEvents \in 0..MaxSubmits
    /\ questionInput \in Inputs

\* ================================================================ claims
\* Vocabulary of the properties.

\* A text contains the string m: it is m after one of the fixed prefixes
\* the page puts in front of a message.
Prefixes == {"", "Fehler: ", "Fehler bei der Anfrage: "}
Contains(text, m) == \E pre \in Prefixes : text = pre \o m

\* The input is empty or consists only of whitespace.
Blank(value) == \A i \in 1..Len(value) : value[i] = Space

\* The entry the page shows for a source: filename and score as a
\* percentage with one decimal place.
ExpectedEntry(source) ==
    CASE source = Geo -> "geo.txt (Relevanz: 87.3%)"
      [] source = Hist -> "hist.txt (Relevanz: 5.0%)"

\* The texts of the list entries, in order.
Texts(list) == [i \in 1..Len(list) |-> list[i].text]

\* The texts a successful response is to leave in the sources list.
ExpectedTexts(d) ==
    IF d.hasSources /\ d.sources # <<>>
    THEN [i \in 1..Len(d.sources) |-> ExpectedEntry(d.sources[i])]
    ELSE << "Keine spezifischen Quellen gefunden." >>

\* This step runs the then or catch callback of the question request r.
AskHandled(r) ==
    /\ r \in askReqs
    /\ r.stage \in {"resolved", "rejected"}
    /\ r \notin askReqs'

\* This step runs the then callback of r on a body with success = true.
AskSucceeded(r) ==
    AskHandled(r) /\ r.stage = "resolved" /\ r.data.success

Rendered == <<answerContent, sourcesList, answerHidden>>

\* ---------------------------------------------------------------------
\* C1: once the index request has settled, the index button is re-enabled,
\* whatever the outcome, and no finished cycle leaves it disabled.
C1_IndexButtonReenabled ==
    /\ [](indexReqs = {} => ~indexButtonDisabled)
    /\ ((\E r \in indexReqs : r.stage # "inflight")
           ~> ~indexButtonDisabled)

\* A second cycle has ended after a failure, with the button enabled.
C1_Witness ==
    /\ clickEvents >= 2
    /\ indexReqs = {}
    /\ indexStatus.cls = "alert-danger"
    /\ ~indexButtonDisabled

\* ---------------------------------------------------------------------
\* C2: a submission with empty or whitespace-only input opens the warning
\* and sends nothing: no request, no loading indicator, answer section,
\* answer text and sources list as they were.
C2_BlankQuestionSendsNothing ==
    [][ (submitEvents' = submitEvents + 1 /\ Blank(questionInput))
          => /\ alert' = "Bitte geben Sie eine Frage ein."
             /\ UNCHANGED <<askSent, askReqs, loadingHidden, answerHidden,
                            answerContent, sourcesList>> ]_vars

\* A whitespace-only question has been submitted after an answer was
\* rendered: the warning is open and the answer is still shown.
C2_Witness ==
    /\ alert = "Bitte geben Sie eine Frage ein."
    /\ questionInput # <<>>
    /\ ~answerHidden
    /\ askReqs = {}

\* ---------------------------------------------------------------------
\* C3: at most one request to /api/index-documents is outstanding.
C3_OneIndexRequest == Cardinality(indexReqs) <= 1

\* The request of a second cycle is outstanding, alone.
C3_Witness ==
    /\ indexSent >= 2
    /\ indexButtonDisabled
    /\ \E r \in indexReqs : r.id = indexSent /\ r.stage = "inflight"

\* ---------------------------------------------------------------------
\* C4: when a /api/ask response with success = false has been handled, the
\* alert with the server's message is open and the answer section is
\* hidden.
C4_FailureAlertAnswerHidden ==
    \A r \in askReqs :
        r.stage = "thenAlert"
            => Contains(alert, r.data.message) /\ answerHidden

\* ---------------------------------------------------------------------
\* C5: handling a successful response with a non-empty sources sequence
\* sets the answer text to the response's answer, leaves exactly one entry
\* per source, in order, each with filename and score, and shows the
\* answer section.
C5_SourcesRebuilt ==
    [][ \A r \in askReqs :
          (AskSucceeded(r) /\ r.data.hasSources /\ r.data.sources # <<>>)
            => /\ answerContent'.text = r.data.answer
               /\ Len(sourcesList') = Len(r.data.sources)
               /\ \A i \in 1..Len(r.data.sources) :
                     sourcesList'[i].text = ExpectedEntry(r.data.sources[i])
               /\ ~answerHidden' ]_vars

\* A later response with two sources has been rendered.
C5_Witness ==
    \E r \in askReqs :
        /\ r.stage = "finally"
        /\ r.id >= 2
        /\ r.data.success
        /\ r.data.sources = <<Hist, Geo>>
        /\ Texts(sourcesList) = << "hist.txt (Relevanz: 5.0%)",
                                   "geo.txt (Relevanz: 87.3%)" >>
        /\ answerContent.text = r.data.answer
        /\ ~answerHidden

\* ---------------------------------------------------------------------
\* C6: handling a successful response without sources, or with an empty
\* sources sequence, leaves exactly the placeholder entry in the list.
C6_PlaceholderOnly ==
    [][ \A r \in askReqs :
          (AskSucceeded(r) /\ (~r.data.hasSources \/ r.data.sources = <<>>))
            => Texts(sourcesList') =
                  << "Keine spezifischen Quellen gefunden." >> ]_vars

\* A later response with an empty sources sequence has been rendered.
C6_Witness ==
    \E r \in askReqs :
        /\ r.stage = "finally"
        /\ r.id >= 2
        /\ r.data.success
        /\ r.data.hasSources
        /\ r.data.sources = <<>>
        /\ Texts(sourcesList) = << "Keine spezifischen Quellen gefunden." >>

\* ---------------------------------------------------------------------
\* C7: when the index request is rejected, the catch callback writes an
\* error message with the error's description to the status area, and
\* the finally callback that follows enables the button with that message
\* still shown.
C7_IndexRejected ==
    [][ \A r \in indexReqs :
          /\ (r.stage = "rejected" /\ r \notin indexReqs')
                => /\ indexStatus'.cls = "alert-danger"
                   /\ Contains(indexStatus'.text, r.error)
          /\ (r.stage = "finally" /\ r.error # NoError
                 /\ r \notin indexReqs')
                => /\ ~indexButtonDisabled'
                   /\ Contains(indexStatus'.text, r.error) ]_vars

\* A rejected cycle has ended: error shown, button enabled.
C7_Witness ==
    /\ indexReqs = {}
    /\ indexSent >= 1
    /\ indexStatus.text = "Fehler: Failed to fetch"
    /\ ~indexButtonDisabled

C9_StaleResponseIgnored ==
    [][ \A r \in askReqs :
          (AskHandled(r) /\ r.id < askSent) => UNCHANGED Rendered ]_vars

\* ---------------------------------------------------------------------
\* C10: the finally callback of every question request hides the loading
\* indicator, and the indicator is hidden whenever no question request is
\* outstanding.
C10_LoadingHiddenWhenSettled ==
    /\ [](askReqs = {} => loadingHidden)
    /\ [][ \A r \in askReqs :
             (r.stage = "finally" /\ r \notin askReqs')
                => loadingHidden' ]_vars

\* Two question requests have settled, the last one without success: no
\* request is outstanding and the indicator is hidden.
C10_Witness ==
    /\ askSent >= 2
    /\ askReqs = {}
    /\ answerHidden
    /\ loadingHidden

\* ---------------------------------------------------------------------
\* Vocabulary of the frame properties.

\* This step belongs to the index flow: a click, the arrival of the index
\* response, or a callback of the index chain.
IndexStep == indexReqs' # indexReqs \/ clickEvents' # clickEvents

\* This step belongs to the question flow: a submit, the arrival of the
\* answer, a callback of the question chain or the return of its alert.
AskStep ==
    askReqs' # askReqs \/ submitEvents' # submitEvents \/ alert' # alert

\* C11: no step of the index flow changes the loading indicator, the
\* answer section, the answer text or the sources list, and no step of
\* the question flow changes the index button or the index status area.
C11_HandlersIndependent ==
    [][ /\ IndexStep => UNCHANGED <<loadingHidden, answerHidden,
                                    answerContent, sourcesList>>
        /\ AskStep => UNCHANGED <<indexButtonDisabled, indexStatus>> ]_vars

\* Both flows are in progress: the question chain has reached .finally
\* while an index request is outstanding and the button is disabled.
C11_Witness ==
    /\ indexButtonDisabled
    /\ \E r \in indexReqs : r.stage = "inflight"
    /\ \E r \in askReqs : r.stage = "finally"
    /\ ~loadingHidden

\* ---------------------------------------------------------------------
\* C12: an answer received from the server is on the page only as the
\* result of a plain-text assignment, never of an innerHTML assignment.
C12_AnswerPlainText ==
    /\ answerContent.sink # "innerHTML"
    /\ (\E d \in AskSuccess : answerContent.text = d.answer)
          => answerContent.sink = "textContent"

\* A server-supplied answer is on the page, written through textContent.
C12_Witness ==
    /\ answerContent.text = "Rom"
    /\ answerContent.sink = "textContent"
    /\ ~answerHidden

\* ---------------------------------------------------------------------
\* C13: the index button is disabled exactly while an index cycle is in
\* progress, from the click to the end of the finally callback.
C13_DisabledIffInProgress == indexButtonDisabled <=> indexReqs # {}

\* The request of a cycle has settled and its finally callback has not
\* run yet: the button is still disabled.
C13_Witness ==
    /\ indexButtonDisabled
    /\ \E r \in indexReqs : r.stage = "finally" /\ r.data.success

\* ---------------------------------------------------------------------
\* The status the cycle of the settled index request r is to end with:
\* the error message if the request failed, else the message of the
\* response, as a success if its flag is true and as a failure if not.
ExpectedStatus(r) ==
    IF r.error # NoError
    THEN [sink |-> "innerHTML", cls |-> "alert-danger",
          text |-> "Fehler: " \o r.error]
    ELSE [sink |-> "innerHTML",
          cls |-> IF r.data.success THEN "alert-success"
                                    ELSE "alert-danger",
          text |-> r.data.message]

\* C14: when a cycle ends, the status area shows the outcome of that
\* cycle; it keeps showing it for as long as the button stays enabled, and
\* never shows the in-progress message while the button is enabled.
C14_StatusShowsOutcome ==
    /\ [][ \A r \in indexReqs :
             (r.stage = "finally" /\ r \notin indexReqs')
                => indexStatus' = ExpectedStatus(r) /\ ~indexButtonDisabled'
         ]_vars
    /\ [][ (~indexButtonDisabled /\ ~indexButtonDisabled')
                => indexStatus' = indexStatus ]_vars
    /\ [](~indexButtonDisabled => indexStatus.cls # "alert-info")

\* A second cycle has ended with a success response: its message is
\* shown as a success and the button is enabled.
C14_Witness ==
    /\ clickEvents >= 2
    /\ indexReqs = {}
    /\ ~indexButtonDisabled
    /\ indexStatus.cls = "alert-success"
    /\ indexStatus.text = "3 Dokumente indexiert"

\* ---------------------------------------------------------------------
\* C15: every click sends exactly one request to /api/index-documents and
\* every submission with a non-blank question exactly one to /api/ask; no
\* other step sends a request, so a failed request is never sent again.
C15_NoRetry ==
    /\ [](indexSent = clickEvents)
    /\ [][ indexSent' = IF clickEvents' = clickEvents + 1
                        THEN indexSent + 1 ELSE indexSent ]_vars
    /\ [][ askSent' = IF /\ submitEvents' = submitEvents + 1
                         /\ ~Blank(questionInput)
                      THEN askSent + 1 ELSE askSent ]_vars
    /\ [](Cardinality(indexReqs) <= indexSent /\ Cardinality(askReqs) <= askSent)

\* Both kinds of request have failed and the chains have ended: the
\* counts still match the user's actions, one submission was blank.
C15_Witness ==
    /\ indexSent = 2 /\ clickEvents = 2
    /\ indexStatus.cls = "alert-danger"
    /\ indexReqs = {}
    /\ askSent = 1 /\ submitEvents = 2
    /\ askReqs = {}
    /\ answerHidden
    /\ console # {}

\* ---------------------------------------------------------------------
\* This step is a step of the chain of a question request that did not
\* succeed: its then callback on success = false, its catch callback, the
\* return of its alert or its finally callback.
AskFailedStep(r) ==
    /\ r \in askReqs
    /\ r \notin askReqs'
    /\ r.stage # "inflight"
    /\ ~r.data.success

\* C16: no step of a question request that failed changes the answer
\* text, the sources list or the visibility of the answer section, and
\* the answer text and the sources list change only when a response with
\* success = true is handled.
C16_FailureLeavesAnswer ==
    [][ /\ \A r \in askReqs : AskFailedStep(r) => UNCHANGED Rendered
        /\ (answerContent' # answerContent \/ sourcesList' # sourcesList)
              => \E r \in askReqs : AskSucceeded(r) ]_vars

\* A request was rejected after an answer was rendered: the alert of the
\* catch callback is open and the answer and its sources are still there.
C16_Witness ==
    \E r \in askReqs :
        /\ r.stage = "catchAlert"
        /\ answerContent.text = "Rom"
        /\ Len(sourcesList) = 2

\* ---------------------------------------------------------------------
\* C17: the loading indicator is visible in every state in which a
\* question request is outstanding.
C17_LoadingWhileOutstanding ==
    (\E r \in askReqs : r.stage = "inflight") => ~loadingHidden

\* ---------------------------------------------------------------------
\* C18: whenever the answer section is visible, the answer text is the
\* answer of a response with success = true, written as plain text, and
\* the sources list holds the entries of that response: one per source,
\* or the placeholder alone; in either case at least one entry.
C18_VisibleAnswerComplete ==
    ~answerHidden =>
        /\ Len(sourcesList) >= 1
        /\ \E d \in AskSuccess :
              /\ answerContent.text = d.answer
              /\ Texts(sourcesList) = ExpectedTexts(d)

\* The answer section is visible again after a response with
\* success = false was handled: the answer shown is still complete.
C18_Witness ==
    /\ ~answerHidden
    /\ \E r \in askReqs : r.stage = "thenAlert"
    /\ Texts(sourcesList) = << "geo.txt (Relevanz: 87.3%)" >>
    /\ answerContent.text = "Paris"

\* ---------------------------------------------------------------------
\* The strings the server or a caught error supplies.
SuppliedStrings ==
    { d.message : d \in IndexData } \cup { d.message : d \in AskFailure }
        \cup { d.answer : d \in AskSuccess } \cup Errors

\* The content was assigned through innerHTML and holds a supplied string.
SuppliedAsHtml(content) ==
    /\ content.sink = "innerHTML"
    /\ \E m \in SuppliedStrings : Contains(content.text, m)

\* C19: no supplied string is on the page as the result of an innerHTML
\* assignment: not in the index status area, not in the answer text, not
\* in an entry of the sources list.
C19_NoSuppliedStringAsHtml ==
    /\ ~SuppliedAsHtml(indexStatus)
    /\ ~SuppliedAsHtml(answerContent)
    /\ \A i \in 1..Len(sourcesList) : sourcesList[i].sink # "innerHTML"

====
